---------------------------- MODULE Spec2Model ----------------------------
(***************************************************************************)
(* Model of src/main.py: the SoilGrids wrapper.                            *)
(*                                                                         *)
(* Encoding of the data the code handles.                                  *)
(*   JSON scalar       <<tag, n>>, tag "null" | "str" | "num"; "str" is a  *)
(*                     string float() rejects ("abc").                     *)
(*   JSON unit string  <<tag, s>>, tag "null" | "str".                     *)
(*   Optional[float]   [some, num, den], a reduced fraction num/den.       *)
(*   JSON object slot  a record with a tag t: "absent" (key missing),      *)
(*                     "null", "obj", or the tag of a value of the wrong   *)
(*                     type ("str", "num").                                *)
(*   dict of values    a sequence of <<key, scalar>> in the payload order. *)
(*   coordinates       integers, in hundredths of a degree.                *)
(***************************************************************************)
EXTENDS Integers, Sequences, FiniteSets, TLC

VARIABLES pc, lat, lon, pi, i, queried, yielded, resp, val, unit, out

vars == <<pc, lat, lon, pi, i, queried, yielded, resp, val, unit, out>>

\* ------------------------------------------------------------------ bounds
\* Longest values dict, depth list and layer list the fetch inputs hold.
MaxKeys == 2
MaxDepths == 2
MaxLayers == 2

\* ------------------------------------------------------------------ config
PROPERTIES == <<"soc", "phh2o", "sand", "silt", "clay", "bdod", "ocs">>

none == [some |-> FALSE, num |-> 0, den |-> 1]

Abs(x) == IF x < 0 THEN -x ELSE x

RECURSIVE Gcd(_, _)
Gcd(a, b) == IF b = 0 THEN a ELSE Gcd(b, a % b)

\* The float n/d (d # 0), as a reduced fraction with a positive denominator.
Float(n, d) ==
    LET g == Gcd(Abs(n), Abs(d))
        s == IF d < 0 THEN -1 ELSE 1
    IN [some |-> TRUE, num |-> (s * n) \div g, den |-> (s * d) \div g]

DEFAULT_VALUES ==
    [p \in {PROPERTIES[k] : k \in DOMAIN PROPERTIES} |->
        CASE p = "soc" -> Float(150, 10)
          [] p = "phh2o" -> Float(65, 10)
          [] p = "sand" -> Float(300, 10)
          [] p = "silt" -> Float(400, 10)
          [] p = "clay" -> Float(300, 10)
          [] p = "bdod" -> Float(13, 10)
          [] p = "ocs" -> Float(40, 10)]

\* ------------------------------------------------------------ JSON values
Null == <<"null", 0>>
NaS == <<"str", 0>>
Num(n) == <<"num", n>>

NoUnit == <<"null", "">>
Str(s) == <<"str", s>>

\* dict.get(k) on a sequence of <<key, value>>: the value, None when absent.
RECURSIVE Get(_, _, _)
Get(items, k, dflt) ==
    IF items = <<>> THEN dflt
    ELSE IF Head(items)[1] = k THEN Head(items)[2]
    ELSE Get(Tail(items), k, dflt)

\* ---------------------------------------------- _extract_numeric_from_values
prefer == <<"mean", "Q0.5", "median", "Q0.05", "Q0.95">>

\* The test written as `if v:`, which also drops a zero.
IsNotNoneTruthy(v) == v[1] # "null" /\ v # Num(0)

\* `v is not None`
IsNotNone(v) == v[1] # "null"

\* `float(v) / d_factor` inside try/except: none when it raises (v not a
\* number: ValueError; d_factor null or a string: TypeError; d_factor 0:
\* ZeroDivisionError).
TryDivide(v, d_factor) ==
    IF v[1] = "num" /\ d_factor[1] = "num" /\ d_factor[2] # 0
    THEN Float(v[2], d_factor[2])
    ELSE none

\* Either loop: the first candidate that is not None and converts.
RECURSIVE FirstNumeric(_, _)
FirstNumeric(cands, d_factor) ==
    IF cands = <<>> THEN none
    ELSE IF IsNotNone(Head(cands)) /\ TryDivide(Head(cands), d_factor).some
         THEN TryDivide(Head(cands), d_factor)
         ELSE FirstNumeric(Tail(cands), d_factor)

\* The function without its second loop (lines 42-48).
extract_preferred_only(values, d_factor) ==
    IF values.t # "obj" THEN none
    ELSE FirstNumeric([k \in DOMAIN prefer |-> Get(values.items, prefer[k], Null)],
                      d_factor)

\* The function without its first loop (lines 34-41): payload order only.
extract_unordered(values, d_factor) ==
    IF values.t # "obj" THEN none
    ELSE FirstNumeric([k \in DOMAIN values.items |-> values.items[k][2]], d_factor)

extract_numeric_from_values(values, d_factor) ==
    IF values.t # "obj" THEN none
    ELSE LET byPrefer ==
                 FirstNumeric([k \in DOMAIN prefer |->
                                  Get(values.items, prefer[k], Null)], d_factor)
         IN IF byPrefer.some THEN byPrefer
            ELSE FirstNumeric([k \in DOMAIN values.items |-> values.items[k][2]],
                              d_factor)

\* ----------------------------------------------------------- _extract_unit
\* Python truthiness of a unit string: None and "" are falsy.
UnitTruthy(u) == u[1] = "str" /\ u[2] # ""

\* `layer.get("unit_measure") or {}`, then the `or` chain. Called only with
\* a unit_measure slot that is not a non-dict value (that raises).
extract_unit(um) ==
    IF um.t # "obj" THEN NoUnit
    ELSE IF UnitTruthy(um.target_units) THEN um.target_units
    ELSE IF UnitTruthy(um.mapped_units) THEN um.mapped_units
    ELSE um.unit

\* ------------------------------------------------------------- _fetch_value
Ret(v, u) == [kind |-> "ret", val |-> v, unit |-> u]
Raise == [kind |-> "raise", val |-> none, unit |-> NoUnit]

\* `isinstance(layers, dict)`: layers.get(prop).
RECURSIVE LookupKey(_, _)
LookupKey(items, prop) ==
    IF items = <<>> THEN [found |-> FALSE]
    ELSE IF Head(items).key = prop THEN [found |-> TRUE, layer |-> Head(items)]
    ELSE LookupKey(Tail(items), prop)

\* `isinstance(layers, list)`: the first dict item whose name is prop.
RECURSIVE LookupName(_, _)
LookupName(items, prop) ==
    IF items = <<>> THEN [found |-> FALSE]
    ELSE IF Head(items).t = "obj" /\ Head(items).name = prop
         THEN [found |-> TRUE, layer |-> Head(items)]
         ELSE LookupName(Tail(items), prop)

\* The layers value of the body: data.get("properties", {}).get("layers").
LayersOf(body) ==
    IF body.properties.t = "obj" THEN body.properties.layers
    ELSE [t |-> "absent", items |-> <<>>]

FindLayer(layers, prop) ==
    CASE layers.t = "dict" -> LookupKey(layers.items, prop)
      [] layers.t = "list" -> LookupName(layers.items, prop)
      [] OTHER -> [found |-> FALSE]

\* `not layer_obj`: None, a JSON null, or an empty dict.
EmptyLayer(l) ==
    l.t = "obj" /\ l.name = "" /\ l.unit_measure.t = "absent" /\ l.depths.t = "absent"

Falsy(found) == ~found.found \/ found.layer.t = "null" \/ EmptyLayer(found.layer)

\* layer_obj.get("unit_measure", {}).get("d_factor", 1), unit_measure a dict
\* or absent.
DFactorOf(um) ==
    IF um.t = "obj" /\ um.d_factor[1] # "absent" THEN um.d_factor ELSE Num(1)

\* `d.get("values") or {}`
ValuesOf(d) ==
    IF d.values.t \in {"absent", "null"} THEN [t |-> "obj", items |-> <<>>]
    ELSE d.values

\* The loop without its early return: the last depth that yields wins.
RECURSIVE ScanDepthsLast(_, _, _)
ScanDepthsLast(depths, d_factor, u) ==
    IF depths = <<>> THEN Ret(none, u)
    ELSE IF Head(depths).t # "obj" THEN Raise
    ELSE LET numeric == extract_numeric_from_values(ValuesOf(Head(depths)), d_factor)
             rest == ScanDepthsLast(Tail(depths), d_factor, u)
         IN IF rest.kind = "ret" /\ rest.val.some THEN rest
            ELSE IF numeric.some THEN Ret(numeric, u) ELSE rest

\* The loop over depths (lines 90-95).
RECURSIVE ScanDepths(_, _, _)
ScanDepths(depths, d_factor, u) ==
    IF depths = <<>> THEN Ret(none, u)
    ELSE IF Head(depths).t # "obj" THEN Raise
    ELSE LET numeric == extract_numeric_from_values(ValuesOf(Head(depths)), d_factor)
         IN IF numeric.some THEN Ret(numeric, u)
            ELSE ScanDepths(Tail(depths), d_factor, u)

\* Lines 86-95, for a layer_obj that is truthy.
FromLayer(l) ==
    IF l.t # "obj" THEN Raise                          \* "x".get: AttributeError
    ELSE IF l.unit_measure.t = "str" THEN Raise        \* line 54: um.get
    ELSE IF l.unit_measure.t = "null" THEN Raise       \* line 88: None.get
    ELSE IF l.depths.t = "num" THEN Raise              \* line 90: for d in 5
    ELSE ScanDepths(l.depths.items, DFactorOf(l.unit_measure),
                    extract_unit(l.unit_measure))

fetch_value(r, prop) ==
    IF r.kind = "exc" THEN Ret(none, NoUnit)           \* requests.RequestException
    ELSE IF r.status # 200 THEN Ret(none, NoUnit)
    ELSE IF r.body.t = "notjson" THEN Ret(none, NoUnit)
    ELSE IF r.body.t # "obj" THEN Raise                \* [].get: AttributeError
    ELSE IF r.body.properties.t = "null" THEN Raise    \* None.get
    ELSE LET found == FindLayer(LayersOf(r.body), prop)
         IN IF Falsy(found) THEN Ret(none, NoUnit)
            ELSE FromLayer(found.layer)

\* ------------------------------------------------- provider payloads (inputs)
Absent == <<"absent", 0>>

UMOf(t) ==
    [t |-> t, target_units |-> NoUnit, mapped_units |-> NoUnit, unit |-> NoUnit,
     d_factor |-> Absent]
UMObj(tu, mu, u, df) ==
    [t |-> "obj", target_units |-> tu, mapped_units |-> mu, unit |-> u,
     d_factor |-> df]

ValuesOfType(t) == [t |-> t, items |-> <<>>]
ValuesObj(items) == [t |-> "obj", items |-> items]

DepthNotDict == [t |-> "num", values |-> ValuesOfType("absent")]
DepthObj(values) == [t |-> "obj", values |-> values]

DepthsOfType(t) == [t |-> t, items |-> <<>>]
DepthsList(items) == [t |-> "list", items |-> items]

LayerOfType(t, key) ==
    [t |-> t, key |-> key, name |-> "", unit_measure |-> UMOf("absent"),
     depths |-> DepthsOfType("absent")]
LayerObj(key, um, depths) ==
    [t |-> "obj", key |-> key, name |-> key, unit_measure |-> um, depths |-> depths]

LayersOfType(t) == [t |-> t, items |-> <<>>]
LayersDict(items) == [t |-> "dict", items |-> items]
LayersList(items) == [t |-> "list", items |-> items]

BodyOfType(t) ==
    [t |-> t, properties |-> [t |-> "absent", layers |-> LayersOfType("absent")]]
BodyProps(t) ==
    [t |-> "obj", properties |-> [t |-> t, layers |-> LayersOfType("absent")]]
BodyLayers(layers) ==
    [t |-> "obj", properties |-> [t |-> "obj", layers |-> layers]]

Exc == [kind |-> "exc", status |-> 0, body |-> BodyOfType("notjson")]
Http(status, body) == [kind |-> "http", status |-> status, body |-> body]
NoResp == [kind |-> "idle", status |-> 0, body |-> BodyOfType("notjson")]

\* A 200 response whose layers list holds one layer for prop.
OneLayer(prop, um, depths) ==
    Http(200, BodyLayers(LayersList(<<LayerObj(prop, um, depths)>>)))
OneDepth(items) == DepthsList(<<DepthObj(ValuesObj(items))>>)

gPerKg == Str("g/kg")

\* What the provider may answer to one query of the service for prop.
ServiceResponses(prop) ==
    { Exc,
      Http(404, BodyOfType("notjson")),
      Http(200, BodyOfType("notjson")),
      Http(200, BodyOfType("list")),
      Http(200, BodyProps("absent")),
      OneLayer(prop, UMOf("null"), OneDepth(<<<<"mean", Num(5)>>>>)),
      OneLayer(prop, UMObj(gPerKg, NoUnit, NoUnit, Num(10)),
               OneDepth(<<<<"mean", Null>>>>)),
      OneLayer(prop, UMObj(NoUnit, gPerKg, NoUnit, Num(10)),
               OneDepth(<<<<"mean", Num(0)>>, <<"Q0.5", Num(5)>>>>)),
      OneLayer(prop, UMObj(NoUnit, NoUnit, NoUnit, Num(10)),
               OneDepth(<<<<"mean", Null>>, <<"Q0.5", Num(12)>>>>)) }

Latitudes == {1000}
Longitudes == {2000, -7550}

\* ------------------------------------------------ fetch_property_for_point
delta == <<1, -1, 2, -2>>

EmptyStr == Str("")

Prop == PROPERTIES[pi]

\* The nearby points with the loops nested the other way round.
NearbyPointLonOuter(k) ==
    <<lat + delta[((k - 1) % 4) + 1], lon + delta[((k - 1) \div 4) + 1]>>

\* The coordinate of the k-th nearby query (k in 1..16): dlat outer, dlon inner.
NearbyPoint(k) ==
    <<lat + delta[((k - 1) \div 4) + 1], lon + delta[((k - 1) % 4) + 1]>>

\* The default returned with the unit left over from the last query.
DefaultUnitStale == unit

\* The unit returned with the default (line 113).
DefaultUnit == EmptyStr

\* `if val is not None: return val, unit` after a query.
Returns(o) == o.val.some

\* One call of _fetch_value at point pt, answered by r, and what follows it.
Query(pt, r) ==
    LET o == fetch_value(r, Prop)
    IN /\ resp' = r
       /\ queried' = Append(queried, pt)
       /\ i' = i + 1
       /\ yielded' = Append(yielded, o.kind = "ret" /\ o.val.some)
       /\ IF o.kind = "raise"
          THEN /\ pc' = "raised"
               /\ UNCHANGED <<val, unit>>
          ELSE /\ val' = o.val
               /\ unit' = o.unit
               /\ pc' = IF Returns(o) THEN "returned" ELSE "nearby"
       /\ UNCHANGED <<lat, lon, pi, out>>

\* Lines 99-102: the primary point.
QueryPrimary ==
    /\ pc = "call"
    /\ \E r \in ServiceResponses(Prop) : Query(<<lat, lon>>, r)

\* Lines 105-110: the next nearby point.
QueryNearby ==
    /\ pc = "nearby"
    /\ i <= Len(delta) * Len(delta)
    /\ \E r \in ServiceResponses(Prop) : Query(NearbyPoint(i), r)

\* Line 113: the default.
ReturnDefault ==
    /\ pc = "nearby"
    /\ i > Len(delta) * Len(delta)
    /\ val' = DEFAULT_VALUES[Prop]
    /\ unit' = DefaultUnit
    /\ pc' = "returned"
    /\ UNCHANGED <<lat, lon, pi, i, queried, yielded, resp, out>>

\* ------------------------------------------------------ fetch_soil_data_all
\* Lines 118-121: out[p] = {value, unit}, then the next property or the end.
StoreResult ==
    /\ pc = "returned"
    /\ out' = [p \in DOMAIN out \cup {Prop} |->
                  IF p = Prop THEN [value |-> val, unit |-> unit] ELSE out[p]]
    /\ IF pi < Len(PROPERTIES)
       THEN /\ pi' = pi + 1
            /\ pc' = "call"
       ELSE /\ pi' = pi
            /\ pc' = "responded"
    /\ i' = 0
    /\ queried' = <<>>
    /\ yielded' = <<>>
    /\ resp' = NoResp
    /\ val' = none
    /\ unit' = NoUnit
    /\ UNCHANGED <<lat, lon>>

\* ------------------------------------------------------------ get_soil_data
\* Lines 145-153: a request for (la, lo) starts the first property.
Request ==
    /\ pc = "idle"
    /\ \E la \in Latitudes, lo \in Longitudes :
          /\ lat' = la
          /\ lon' = lo
    /\ pc' = "call"
    /\ pi' = 1
    /\ UNCHANGED <<i, queried, yielded, resp, val, unit, out>>

Init ==
    /\ pc = "idle"
    /\ lat = 0
    /\ lon = 0
    /\ pi = 1
    /\ i = 0
    /\ queried = <<>>
    /\ yielded = <<>>
    /\ resp = NoResp
    /\ val = none
    /\ unit = NoUnit
    /\ out = <<>>

Next ==
    \/ Request
    \/ QueryPrimary
    \/ QueryNearby
    \/ ReturnDefault
    \/ StoreResult

Spec == Init /\ [][Next]_vars

\* --------------------------------------------- _fetch_value on its own inputs
SeqsUpTo(S, n) == UNION {[1..k -> S] : k \in 0..n}

Distinct(items) ==
    \A a, b \in DOMAIN items : a # b => items[a][1] # items[b][1]

Keys == {prefer[k] : k \in DOMAIN prefer} \cup {"Q0.1", "uncertainty"}
RawValues == {Null, NaS, Num(0), Num(12)}
DSlots == {Absent, Null, NaS, Num(0), Num(1), Num(10)}

\* The values dicts of at most MaxKeys entries, in every payload order.
ValueDicts == {items \in SeqsUpTo(Keys \X RawValues, MaxKeys) : Distinct(items)}

\* The unit_measure of the answers that vary the values dict: every d_factor.
ValueUnitMeasures ==
    {UMOf("absent")} \cup {UMObj(gPerKg, NoUnit, NoUnit, d) : d \in DSlots}

UnitMeasures ==
    {UMOf(t) : t \in {"absent", "null", "str"}}
    \cup {UMObj(tu, mu, u, d) :
            tu \in {NoUnit, EmptyStr, gPerKg},
            mu \in {NoUnit, EmptyStr, Str("dg/kg")},
            u \in {NoUnit, EmptyStr, Str("permille")},
            d \in {Absent, Num(0), Num(10)}}

\* The depths of the answers that vary unit_measure: some yield a number,
\* some none.
UnitDepths ==
    {DepthsOfType("absent"), DepthsList(<<>>),
     OneDepth(<<<<"mean", NaS>>>>), OneDepth(<<<<"Q0.5", Num(12)>>>>)}

DepthChoices ==
    {DepthNotDict}
    \cup {DepthObj(ValuesOfType(t)) : t \in {"absent", "null", "str"}}
    \cup {DepthObj(ValuesObj(items)) :
            items \in {<<>>, <<<<"mean", Null>>>>, <<<<"mean", NaS>>>>,
                       <<<<"mean", Num(0)>>>>, <<<<"mean", Num(12)>>>>,
                       <<<<"Q0.5", Num(5)>>>>, <<<<"uncertainty", Num(7)>>>>,
                       <<<<"mean", Null>>, <<"Q0.1", Num(3)>>>>}}

\* Every list of at most MaxDepths depths, and depths that is no list.
DepthLists ==
    {DepthsOfType(t) : t \in {"absent", "null", "num"}}
    \cup {DepthsList(ds) : ds \in SeqsUpTo(DepthChoices, MaxDepths)}

\* The unit_measure of the answers that vary the depths.
DepthUnitMeasures ==
    {UMOf("absent"), UMObj(gPerKg, NoUnit, NoUnit, Num(10)),
     UMObj(gPerKg, NoUnit, NoUnit, Num(0))}

LayerChoices ==
    { LayerOfType("null", "soc"), LayerOfType("str", "soc"), LayerOfType("obj", "soc"),
      LayerObj("soc", UMObj(gPerKg, NoUnit, NoUnit, Num(10)),
               OneDepth(<<<<"mean", Num(12)>>>>)),
      LayerObj("soc", UMOf("absent"), OneDepth(<<<<"mean", Num(7)>>>>)),
      LayerObj("clay", UMObj(Str("%"), NoUnit, NoUnit, Num(1)),
               OneDepth(<<<<"mean", Num(5)>>>>)) }

DistinctKeys(ls) == \A a, b \in DOMAIN ls : a # b => ls[a].key # ls[b].key

Bodies ==
    {BodyOfType("notjson"), BodyOfType("list"), BodyProps("absent"), BodyProps("null"),
     BodyLayers(LayersOfType("absent")), BodyLayers(LayersOfType("str"))}
    \cup {BodyLayers(LayersList(ls)) : ls \in SeqsUpTo(LayerChoices, MaxLayers)}
    \cup {BodyLayers(LayersDict(ls)) :
            ls \in {x \in SeqsUpTo(LayerChoices, MaxLayers) : DistinctKeys(x)}}

\* Every outcome of the request and every shape of the body.
ShapeFamily == {Exc} \cup {Http(st, b) : st \in {200, 404, 500}, b \in Bodies}

\* resp is one of the answers _fetch_value is tried on: every shape of the
\* response; or one layer for "soc" with every unit_measure, with every list
\* of depths, or with one depth holding every values dict under every
\* d_factor.
FetchInput ==
    \/ resp \in ShapeFamily
    \/ \E um \in UnitMeasures, depths \in UnitDepths :
          resp = OneLayer("soc", um, depths)
    \/ \E um \in DepthUnitMeasures, depths \in DepthLists :
          resp = OneLayer("soc", um, depths)
    \/ \E um \in ValueUnitMeasures, items \in ValueDicts :
          resp = OneLayer("soc", um, OneDepth(items))

\* One call _fetch_value(lat, lon, "soc") answered by resp.
FetchValue ==
    /\ pc = "fetch"
    /\ LET o == fetch_value(resp, Prop)
       IN /\ pc' = IF o.kind = "raise" THEN "fetch_raised" ELSE "fetch_returned"
          /\ val' = o.val
          /\ unit' = o.unit
    /\ UNCHANGED <<lat, lon, pi, i, queried, yielded, resp, out>>

InitFetch ==
    /\ pc = "fetch"
    /\ lat \in Latitudes
    /\ lon \in Longitudes
    /\ pi = 1
    /\ i = 0
    /\ queried = <<>>
    /\ yielded = <<>>
    /\ FetchInput
    /\ val = none
    /\ unit = NoUnit
    /\ out = <<>>

NextFetch == FetchValue

SpecFetch == InitFetch /\ [][NextFetch]_vars

\* ============================================================== properties
\* Queries one call of fetch_property_for_point can issue.
NumQueries == 1 + Len(delta) * Len(delta)

\* The last answer, as _fetch_value saw it.
LastOutcome == fetch_value(resp, Prop)

\* resp is a 200 response whose body holds a non-empty layer object for the
\* property, and that layer.
Located ==
    /\ resp.kind = "http"
    /\ resp.status = 200
    /\ resp.body.t = "obj"
    /\ resp.body.properties.t = "obj"
    /\ ~Falsy(FindLayer(LayersOf(resp.body), Prop))
    /\ FindLayer(LayersOf(resp.body), Prop).layer.t = "obj"
TheLayer == FindLayer(LayersOf(resp.body), Prop).layer

\* unit_measure is an object or absent, depths a list, null or absent.
LayerReadable ==
    /\ Located
    /\ TheLayer.unit_measure.t \in {"absent", "obj"}
    /\ TheLayer.depths.t \in {"absent", "null", "list"}
TheDepths == TheLayer.depths.items
TheDFactor == DFactorOf(TheLayer.unit_measure)
UsableDFactor == TheDFactor[1] = "num" /\ TheDFactor[2] # 0

\* The unit by the documented preference: target_units, else mapped_units,
\* else unit (a key counts when it holds a non-empty string).
PreferredUnit(um) ==
    IF um.t # "obj" THEN NoUnit
    ELSE IF UnitTruthy(um.target_units) THEN um.target_units
    ELSE IF UnitTruthy(um.mapped_units) THEN um.mapped_units
    ELSE um.unit

\* ---- C1
\* C1: no exception ever escapes the resolution path: whatever the provider
\* answers, _fetch_value and fetch_property_for_point raise nothing.
C1_NoExceptionEscapes == pc # "raised"

\* ---- C2
\* C2: for every property and every combination of provider answers, a call
\* of fetch_property_for_point ends by returning a value that is a number,
\* and every value placed in the response is a number.
C2_ResolveReturnsNumber ==
    /\ pc \in {"returned", "raised"} => (pc = "returned" /\ val.some)
    /\ \A p \in DOMAIN out : out[p].value.some

\* ---- C3
\* C3: if the primary and all 16 nearby queries of a property yielded no
\* value, fetch_property_for_point returns DEFAULT_VALUES[property] and the
\* empty string as unit, whatever unit the failed answers carried.
C3_AllFailThenDefault ==
    (/\ pc = "returned"
     /\ Len(yielded) = NumQueries
     /\ \A k \in DOMAIN yielded : ~yielded[k])
    => (val = DEFAULT_VALUES[Prop] /\ unit = Str(""))

\* All 17 queries failed, the last failed answer carried a unit, and the
\* default came back.
C3_Witness ==
    /\ pc = "returned"
    /\ Len(yielded) = NumQueries
    /\ \A k \in DOMAIN yielded : ~yielded[k]
    /\ LastOutcome.kind = "ret"
    /\ LastOutcome.unit = Str("g/kg")
    /\ Prop = "bdod"
    /\ val = Float(13, 10)

\* ---- C4
\* The fixed order of C4: (lat, lon), then lat offsets 0.01, -0.01,
\* 0.02, -0.02 (outer), each with lon offsets 0.01, -0.01, 0.02, -0.02.
C4_Offsets ==
    << <<0, 0>>,
       <<1, 1>>, <<1, -1>>, <<1, 2>>, <<1, -2>>,
       <<-1, 1>>, <<-1, -1>>, <<-1, 2>>, <<-1, -2>>,
       <<2, 1>>, <<2, -1>>, <<2, 2>>, <<2, -2>>,
       <<-2, 1>>, <<-2, -1>>, <<-2, 2>>, <<-2, -2>> >>

\* C4: the coordinates queried for one property are a prefix of the fixed
\* 17-element order; a query that yields a value is the last one and its
\* value and unit are what is returned; the sequence stops before 17 only
\* at such a query (or at an escaping exception).
C4_QueriesPrefixOfFixedOrder ==
    /\ Len(queried) <= Len(C4_Offsets)
    /\ Len(yielded) = Len(queried)
    /\ \A k \in DOMAIN queried :
          queried[k] = <<lat + C4_Offsets[k][1], lon + C4_Offsets[k][2]>>
    /\ \A k \in DOMAIN yielded :
          yielded[k] => /\ k = Len(yielded)
                        /\ pc = "returned"
                        /\ val = LastOutcome.val
                        /\ unit = LastOutcome.unit
    /\ (pc = "returned" /\ Len(queried) < Len(C4_Offsets))
          => yielded[Len(yielded)]
    /\ (pc = "nearby" /\ Len(queried) > 0) => ~yielded[Len(yielded)]

\* The 7th query (lat - 0.01, lon - 0.01) yielded a value and ended the
\* sequence.
C4_Witness ==
    /\ pc = "returned"
    /\ Len(queried) = 7
    /\ queried[7] = <<lat - 1, lon - 1>>
    /\ yielded[7]
    /\ val.some

\* ---- C5
\* Preferred key number k is the first preferred key of items that is not
\* null or absent, and it holds a number.
C5_Chosen(items, k) ==
    /\ Get(items, prefer[k], Null)[1] = "num"
    /\ \A j \in 1..(k - 1) : Get(items, prefer[j], Null) = Null

\* C5, as the specification words it: for a depth whose first non-null preferred key (mean, Q0.5,
\* median, Q0.05, Q0.95) holds X, extraction gives X / d_factor for every
\* d_factor the unit_measure supplies (1 when absent).
C5_PreferenceAnyDFactor ==
    (pc # "fetch" /\ LayerReadable) =>
      \A n \in DOMAIN TheDepths :
        \A k \in DOMAIN prefer :
          (/\ TheDepths[n].t = "obj"
           /\ TheDepths[n].values.t = "obj"
           /\ C5_Chosen(TheDepths[n].values.items, k))
          => LET x == Get(TheDepths[n].values.items, prefer[k], Null)[2]
                 r == extract_numeric_from_values(ValuesOf(TheDepths[n]), TheDFactor)
             IN /\ r.some
                /\ UsableDFactor => r = Float(x, TheDFactor[2])

\* C5, as the code has it: the same for every d_factor that is a number other than 0
\* (1 when unit_measure or its d_factor is absent); and when the depth is
\* the first one, that is what _fetch_value returns.
C5_PreferenceUsableDFactor ==
    (LayerReadable /\ UsableDFactor) =>
      \A n \in DOMAIN TheDepths :
        \A k \in DOMAIN prefer :
          (/\ TheDepths[n].t = "obj"
           /\ TheDepths[n].values.t = "obj"
           /\ C5_Chosen(TheDepths[n].values.items, k))
          => LET x == Get(TheDepths[n].values.items, prefer[k], Null)[2]
                 r == extract_numeric_from_values(ValuesOf(TheDepths[n]), TheDFactor)
             IN /\ r = Float(x, TheDFactor[2])
                /\ (n = 1 /\ pc # "fetch")
                      => (pc = "fetch_returned" /\ val = Float(x, TheDFactor[2]))

\* mean is null, Q0.5 = 12 comes second in the payload after another number,
\* d_factor is 10: 1.2 was returned.
C5_Witness ==
    /\ pc = "fetch_returned"
    /\ LayerReadable
    /\ TheDFactor = Num(10)
    /\ Len(TheDepths) = 1
    /\ TheDepths[1].values.items = <<<<"Q0.95", Num(0)>>, <<"Q0.5", Num(12)>>>>
    /\ val = Float(6, 5)

\* ---- C6
\* No preferred key of items holds a non-null value, some entry is a number.
C6_OnlyOtherKeys(items) ==
    /\ \A k \in DOMAIN prefer : Get(items, prefer[k], Null) = Null
    /\ \E n \in DOMAIN items : items[n][2][1] = "num"

\* The first entry of items, in payload order, that is not null.
C6_FirstNonNull(items) ==
    CHOOSE n \in DOMAIN items :
        items[n][2] # Null /\ \A m \in 1..(n - 1) : items[m][2] = Null

\* The first entry of items, in payload order, that is a number.
C6_FirstNumber(items) ==
    CHOOSE n \in DOMAIN items :
        items[n][2][1] = "num" /\ \A m \in 1..(n - 1) : items[m][2][1] # "num"

\* C6, as the specification words it: with all preferred keys null or absent and a number under
\* some other key, extraction returns the first non-null entry in payload
\* order (divided by d_factor).
C6_FirstNonNullEntry ==
    (pc # "fetch" /\ LayerReadable /\ UsableDFactor) =>
      \A n \in DOMAIN TheDepths :
        (/\ TheDepths[n].t = "obj"
         /\ TheDepths[n].values.t = "obj"
         /\ C6_OnlyOtherKeys(TheDepths[n].values.items))
        => LET items == TheDepths[n].values.items
               v == items[C6_FirstNonNull(items)][2]
               r == extract_numeric_from_values(ValuesOf(TheDepths[n]), TheDFactor)
           IN v[1] = "num" /\ r = Float(v[2], TheDFactor[2])

\* C6, as the code has it: extraction returns the first non-null entry in payload order
\* that converts to a number, divided by d_factor.
C6_FirstNumericEntry ==
    (LayerReadable /\ UsableDFactor) =>
      \A n \in DOMAIN TheDepths :
        (/\ TheDepths[n].t = "obj"
         /\ TheDepths[n].values.t = "obj"
         /\ C6_OnlyOtherKeys(TheDepths[n].values.items))
        => LET items == TheDepths[n].values.items
               v == items[C6_FirstNumber(items)][2]
               r == extract_numeric_from_values(ValuesOf(TheDepths[n]), TheDFactor)
           IN /\ r = Float(v[2], TheDFactor[2])
              /\ (n = 1 /\ pc # "fetch")
                    => (pc = "fetch_returned" /\ val = Float(v[2], TheDFactor[2]))

\* Only other keys, the first a string and the second 12, d_factor 10: 1.2
\* was returned.
C6_Witness ==
    /\ pc = "fetch_returned"
    /\ LayerReadable
    /\ TheDFactor = Num(10)
    /\ Len(TheDepths) = 1
    /\ TheDepths[1].values.items = <<<<"uncertainty", NaS>>, <<"Q0.1", Num(12)>>>>
    /\ val = Float(6, 5)

\* ---- C7
\* C7: the unit fetch_property_for_point returns, and every unit placed in
\* the response, is a string (possibly empty), never null.
C7_UnitIsString ==
    /\ pc = "returned" => unit[1] = "str"
    /\ \A p \in DOMAIN out : out[p].unit[1] = "str"

\* ---- C8
\* Depth d holds some non-null value.
C8_HoldsNonNull(d) ==
    /\ d.t = "obj"
    /\ d.values.t = "obj"
    /\ \E n \in DOMAIN d.values.items : d.values.items[n][2] # Null

\* Depth d yields a number: extraction from its values returns one.
DepthYields(d) ==
    /\ d.t = "obj"
    /\ extract_numeric_from_values(ValuesOf(d), TheDFactor).some

\* C8, as the specification words it: the number _fetch_value returns comes from the first
\* depth, in the provider's order, that holds any non-null value.
C8_FirstNonNullDepth ==
    (pc = "fetch_returned" /\ val.some) =>
      \E n \in DOMAIN TheDepths :
        /\ C8_HoldsNonNull(TheDepths[n])
        /\ \A m \in 1..(n - 1) : ~C8_HoldsNonNull(TheDepths[m])
        /\ val = extract_numeric_from_values(ValuesOf(TheDepths[n]), TheDFactor)

\* C8, as the code has it: the number _fetch_value returns comes from the first depth,
\* in the provider's order, that yields a number; and it returns no number
\* only when no depth yields one.
C8_FirstYieldingDepth ==
    /\ (pc = "fetch_returned" /\ val.some) =>
         \E n \in DOMAIN TheDepths :
           /\ DepthYields(TheDepths[n])
           /\ \A m \in 1..(n - 1) : ~DepthYields(TheDepths[m])
           /\ val = extract_numeric_from_values(ValuesOf(TheDepths[n]), TheDFactor)
    /\ (pc = "fetch_returned" /\ ~val.some /\ LayerReadable) =>
         \A n \in DOMAIN TheDepths : ~DepthYields(TheDepths[n])

\* Two depths that both yield, 12 then 5, with d_factor 10: the first
\* depth's 1.2 was returned.
C8_Witness ==
    /\ pc = "fetch_returned"
    /\ LayerReadable
    /\ TheDFactor = Num(10)
    /\ Len(TheDepths) = 2
    /\ TheDepths[1].values.items = <<<<"mean", Num(12)>>>>
    /\ TheDepths[2].values.items = <<<<"Q0.5", Num(5)>>>>
    /\ val = Float(6, 5)

\* ---- C9
\* C9: with the property layer present in a 200 response and its depths a
\* (possibly missing) list of objects, _fetch_value returns; the unit it returns, with a number or without, is the layer's
\* target_units, else mapped_units, else unit; and with no depth yielding a
\* number the value is None.
C9_ReturnsNoneWithLayerUnit ==
    (/\ pc # "fetch"
     /\ Located
     /\ TheLayer.depths.t \in {"absent", "null", "list"}
     /\ \A n \in DOMAIN TheDepths : TheDepths[n].t = "obj") =>
      /\ pc = "fetch_returned"
      /\ unit = PreferredUnit(TheLayer.unit_measure)
      /\ (\A n \in DOMAIN TheDepths : ~DepthYields(TheDepths[n])) => ~val.some

\* ---- C10
\* The last answer is a 200 response whose layer for the property has a
\* usable d_factor and a first depth with mean = 0.
C10_ZeroAnswered ==
    /\ LayerReadable
    /\ UsableDFactor
    /\ Len(TheDepths) > 0
    /\ TheDepths[1].t = "obj"
    /\ TheDepths[1].values.t = "obj"
    /\ Get(TheDepths[1].values.items, "mean", Null) = Num(0)

\* C10: a provider value of zero is a value: extraction returns 0, not
\* None, and fetch_property_for_point returns 0 with that response's unit,
\* at once, issuing no further query and not substituting the default.
C10_ZeroIsAValue ==
    C10_ZeroAnswered =>
      /\ extract_numeric_from_values(ValuesOf(TheDepths[1]), TheDFactor) = Float(0, 1)
      /\ LastOutcome = Ret(Float(0, 1), PreferredUnit(TheLayer.unit_measure))
      /\ pc = "returned"
      /\ yielded[Len(yielded)]
      /\ Len(queried) = i
      /\ val = Float(0, 1)
      /\ val # DEFAULT_VALUES[Prop]
      /\ unit = PreferredUnit(TheLayer.unit_measure)

\* The third query was answered with mean = 0 and mapped_units "g/kg":
\* (0, "g/kg") was returned after three queries.
C10_Witness ==
    /\ C10_ZeroAnswered
    /\ pc = "returned"
    /\ Len(queried) = 3
    /\ val = Float(0, 1)
    /\ unit = Str("g/kg")

=============================================================================
